---- MODULE Spec2Model ----
(***************************************************************************)
(* Diard: a batch driver (src/main.py) that initializes a layout-detection *)
(* model once and pushes every entry of an input directory through the    *)
(* Document stages, and the batch predictor of src/modules/utils.py       *)
(* (collate, lazy batched inference, prediction mapping).                  *)
(*                                                                         *)
(* Four specifications share the module:                                   *)
(*   Spec         main()                          (src/main.py)            *)
(*   SpecCall     BatchPredictor.__call__         (utils.py 134-155)       *)
(*   SpecMap      BatchPredictor.__map_predictions (utils.py 157-175)      *)
(*   SpecCollate  BatchPredictor.__collate        (utils.py 119-132)       *)
(* The variables of the parts a specification does not exercise stay at    *)
(* their idle values.                                                      *)
(***************************************************************************)
EXTENDS Integers, Sequences, FiniteSets, TLC

(***************************************************************************)
(* Bounds of the model.                                                    *)
(***************************************************************************)
\* number of distinct entries the input directory may hold
MaxFiles == 3
\* number of detected instances handed to one __map_predictions call
MaxInstances == 2
\* number of images in one batch handed to __collate
MaxBatchLen == 2
\* largest image height and width
MaxDim == 3
\* largest INPUT.MIN_SIZE_TEST and INPUT.MAX_SIZE_TEST
MaxSize == 3
\* number of images handed to one BatchPredictor call
MaxImages == 3
\* largest batch_size of the BatchPredictor
MaxBatchSize == 3

(***************************************************************************)
(* State of main().                                                        *)
(***************************************************************************)
VARIABLES
    pc,          \* the statement main() executes next
    dirExists,   \* environment: does docs_dir exist
    dir,         \* environment: the entries of docs_dir
    initCalls,   \* number of initializeModel calls made so far
    predictor,   \* main's local `predictor` (0: unbound, else object id)
    metadata,    \* main's local `metadata`  (0: unbound, else object id)
    filenames,   \* main's local `filenames`
    idx,         \* number of loop iterations started
    docs,        \* the Document instances created, in creation order
    calls,       \* the stage invocations made, in order: <<doc index, stage>>
    jsonOut,     \* doc paths for which a JSON file was written, in order
    htmlOut,     \* doc paths for which an HTML file was written, in order
    raised       \* "" or the call that raised

mainVars == <<pc, dirExists, dir, initCalls, predictor, metadata, filenames,
              idx, docs, calls, jsonOut, htmlOut, raised>>

(***************************************************************************)
(* State of one BatchPredictor.__map_predictions call.                     *)
(***************************************************************************)
VARIABLES
    mapPc,        \* "idle", "call", "return" or "raise"
    classes,      \* self.classes, the configured label map
    instances,    \* the argument: pred_boxes, scores, pred_classes
    predictions   \* the list returned

mapVars == <<mapPc, classes, instances, predictions>>

(***************************************************************************)
(* State of one BatchPredictor.__collate call, and the predictor's         *)
(* preprocessing configuration.                                            *)
(***************************************************************************)
VARIABLES
    colPc,         \* "idle", "call" or "return"
    input_format,  \* self.input_format (cfg.INPUT.FORMAT)
    minSize,       \* cfg.INPUT.MIN_SIZE_TEST
    maxSize,       \* cfg.INPUT.MAX_SIZE_TEST
    batch,         \* the argument: a sequence of images
    data           \* the list returned

colVars == <<colPc, input_format, minSize, maxSize, batch, data>>

(***************************************************************************)
(* State of one BatchPredictor.__call__ generator.                         *)
(***************************************************************************)
VARIABLES
    genState,    \* "idle", "suspended", "exhausted" or "raised"
    imagery,     \* the argument: a sequence of images
    batch_size,  \* self.batch_size
    fetched,     \* number of images the loader has handed out
    pending,     \* results of the current batch not yet yielded
    yielded      \* the values yielded so far, in order

callVars == <<genState, imagery, batch_size, fetched, pending, yielded>>

vars == <<mainVars, mapVars, colVars, callVars>>

IdleMain ==
    /\ pc = "idle"
    /\ dirExists = FALSE
    /\ dir = {}
    /\ initCalls = 0
    /\ predictor = 0
    /\ metadata = 0
    /\ filenames = << >>
    /\ idx = 0
    /\ docs = << >>
    /\ calls = << >>
    /\ jsonOut = << >>
    /\ htmlOut = << >>
    /\ raised = ""

IdleMap ==
    /\ mapPc = "idle"
    /\ classes = << >>
    /\ instances = << >>
    /\ predictions = << >>

IdleCollate ==
    /\ colPc = "idle"
    /\ batch = << >>
    /\ data = << >>

IdleConfig ==
    /\ input_format = "BGR"
    /\ minSize = 1
    /\ maxSize = 1

IdleCall ==
    /\ genState = "idle"
    /\ imagery = << >>
    /\ batch_size = 1
    /\ fetched = 0
    /\ pending = << >>
    /\ yielded = << >>

\* src/main.py:25
docs_dir == "./resources/pdfs/"

\* the five stage calls of the loop body, in the order main() makes them
StageOrder ==
    <<"docToImages", "extractLayouts", "orderLayouts",
      "saveLayoutsAsJson", "saveLayoutsAsHtml">>

\* src/main.py:35  doc_path = docs_dir + filename
DocPath(filename) == <<docs_dir, filename>>

\* all orderings of a finite set, as sequences without repetition
RECURSIVE Listings(_)
Listings(S) ==
    IF S = {} THEN {<< >>}
    ELSE UNION {{<<x>> \o l : l \in Listings(S \ {x})} : x \in S}

InitMain ==
    /\ pc = "initializeModel"
    /\ dirExists \in BOOLEAN
    /\ dir \in SUBSET (1..MaxFiles)
    /\ (~dirExists => dir = {})
    /\ initCalls = 0
    /\ predictor = 0
    /\ metadata = 0
    /\ filenames = << >>
    /\ idx = 0
    /\ docs = << >>
    /\ calls = << >>
    /\ jsonOut = << >>
    /\ htmlOut = << >>
    /\ raised = ""

\* variant: the failure is swallowed and the loop goes on to the next entry
AbortIsolated(what) ==
    /\ pc' = "for"
    /\ raised' = what

\* an uncaught exception leaves main(): nothing after it runs
Abort(what) ==
    /\ pc' = "error"
    /\ raised' = what

\* src/main.py:23  predictor, metadata = initializeModel(...)
InitializeModel ==
    /\ pc = "initializeModel"
    /\ initCalls' = initCalls + 1
    /\ \/ /\ predictor' = initCalls + 1
          /\ metadata' = initCalls + 1
          /\ pc' = "listdir"
          /\ UNCHANGED raised
       \/ /\ Abort("initializeModel")
          /\ UNCHANGED <<predictor, metadata>>
    /\ UNCHANGED <<dirExists, dir, filenames, idx, docs, calls, jsonOut, htmlOut>>
    /\ UNCHANGED <<mapVars, colVars, callVars>>

\* src/main.py:31  filenames = os.listdir(docs_dir)
ListDir ==
    /\ pc = "listdir"
    /\ \/ /\ dirExists
          /\ filenames' \in Listings(dir)
          /\ pc' = "for"
          /\ UNCHANGED raised
       \/ /\ ~dirExists
          /\ Abort("listdir")
          /\ UNCHANGED filenames
    /\ UNCHANGED <<dirExists, dir, initCalls, predictor, metadata, idx, docs,
                   calls, jsonOut, htmlOut>>
    /\ UNCHANGED <<mapVars, colVars, callVars>>

\* variant: the body runs once before the list is tested
ForNextUntested ==
    /\ pc = "for"
    /\ idx <= Len(filenames)
    /\ idx' = idx + 1
    /\ pc' = "Document"
    /\ UNCHANGED <<dirExists, dir, initCalls, predictor, metadata, filenames,
                   docs, calls, jsonOut, htmlOut, raised>>
    /\ UNCHANGED <<mapVars, colVars, callVars>>

\* src/main.py:33  for filename in filenames:   (next iteration)
ForNext ==
    /\ pc = "for"
    /\ idx < Len(filenames)
    /\ idx' = idx + 1
    /\ pc' = "Document"
    /\ UNCHANGED <<dirExists, dir, initCalls, predictor, metadata, filenames,
                   docs, calls, jsonOut, htmlOut, raised>>
    /\ UNCHANGED <<mapVars, colVars, callVars>>

\* src/main.py:33  for filename in filenames:   (exhausted: main returns)
ForExit ==
    /\ pc = "for"
    /\ idx >= Len(filenames)
    /\ pc' = "done"
    /\ UNCHANGED <<dirExists, dir, initCalls, predictor, metadata, filenames,
                   idx, docs, calls, jsonOut, htmlOut, raised>>
    /\ UNCHANGED <<mapVars, colVars, callVars>>

\* variant: the model is initialized again for every document
CreateDocumentReinit ==
    /\ pc = "Document"
    /\ initCalls' = initCalls + 1
    /\ predictor' = initCalls + 1
    /\ metadata' = initCalls + 1
    /\ docs' = Append(docs, [path |-> DocPath(filenames[idx]),
                             predictor |-> predictor',
                             metadata |-> metadata'])
    /\ pc' = StageOrder[1]
    /\ UNCHANGED <<dirExists, dir, filenames, idx, calls, jsonOut, htmlOut,
                   raised>>
    /\ UNCHANGED <<mapVars, colVars, callVars>>

\* src/main.py:35-37  doc = Document(doc_path, predictor=..., metadata=...)
CreateDocument ==
    /\ pc = "Document"
    /\ \/ /\ docs' = Append(docs, [path |-> DocPath(filenames[idx]),
                                   predictor |-> predictor,
                                   metadata |-> metadata])
          /\ pc' = StageOrder[1]
          /\ UNCHANGED raised
       \/ /\ Abort("Document")
          /\ UNCHANGED docs
    /\ UNCHANGED <<dirExists, dir, initCalls, predictor, metadata, filenames,
                   idx, calls, jsonOut, htmlOut>>
    /\ UNCHANGED <<mapVars, colVars, callVars>>

\* variant: the JSON export is left out of the loop body
AfterStageNoJson(n) ==
    IF n = 3 THEN StageOrder[5]
    ELSE IF n < Len(StageOrder) THEN StageOrder[n + 1] ELSE "for"

\* variant: the two exports are made in the opposite order
AfterStageSwapped(n) ==
    CASE n = 3 -> StageOrder[5]
      [] n = 5 -> StageOrder[4]
      [] n = 4 -> "for"
      [] OTHER -> StageOrder[n + 1]

\* what follows stage number n of the loop body
AfterStage(n) == IF n < Len(StageOrder) THEN StageOrder[n + 1] ELSE "for"

\* a stage call on the current document: it returns or it raises
StageCall(n) ==
    /\ pc = StageOrder[n]
    /\ calls' = Append(calls, <<idx, StageOrder[n]>>)
    /\ UNCHANGED <<dirExists, dir, initCalls, predictor, metadata, filenames,
                   idx, docs>>
    /\ UNCHANGED <<mapVars, colVars, callVars>>

\* src/main.py:40  doc.docToImages()
DocToImages ==
    /\ StageCall(1)
    /\ \/ pc' = AfterStage(1) /\ UNCHANGED raised
       \/ Abort(StageOrder[1])
    /\ UNCHANGED <<jsonOut, htmlOut>>

\* src/main.py:41  doc.extractLayouts(visualize=True, segment_sections=True)
ExtractLayouts ==
    /\ StageCall(2)
    /\ \/ pc' = AfterStage(2) /\ UNCHANGED raised
       \/ Abort(StageOrder[2])
    /\ UNCHANGED <<jsonOut, htmlOut>>

\* src/main.py:42  doc.orderLayouts()
OrderLayouts ==
    /\ StageCall(3)
    /\ \/ pc' = AfterStage(3) /\ UNCHANGED raised
       \/ Abort(StageOrder[3])
    /\ UNCHANGED <<jsonOut, htmlOut>>

\* the effect of Document.saveLayoutsAsJson: one JSON file for the document
WriteJson(doc) == Append(jsonOut, doc.path)

\* the effect of Document.saveLayoutsAsHtml: one HTML file for the document
WriteHtml(doc) == Append(htmlOut, doc.path)

\* src/main.py:43  doc.saveLayoutsAsJson()
SaveLayoutsAsJson ==
    /\ StageCall(4)
    /\ \/ /\ jsonOut' = WriteJson(docs[Len(docs)])
          /\ pc' = AfterStage(4)
          /\ UNCHANGED raised
       \/ /\ Abort(StageOrder[4])
          /\ UNCHANGED jsonOut
    /\ UNCHANGED htmlOut

\* src/main.py:44  doc.saveLayoutsAsHtml()
SaveLayoutsAsHtml ==
    /\ StageCall(5)
    /\ \/ /\ htmlOut' = WriteHtml(docs[Len(docs)])
          /\ pc' = AfterStage(5)
          /\ UNCHANGED raised
       \/ /\ Abort(StageOrder[5])
          /\ UNCHANGED htmlOut
    /\ UNCHANGED jsonOut

NextMain ==
    \/ InitializeModel
    \/ ListDir
    \/ ForNext
    \/ ForExit
    \/ CreateDocument
    \/ DocToImages
    \/ ExtractLayouts
    \/ OrderLayouts
    \/ SaveLayoutsAsJson
    \/ SaveLayoutsAsHtml

Init == InitMain /\ IdleMap /\ IdleCollate /\ IdleConfig /\ IdleCall

Spec == Init /\ [][NextMain]_vars

(***************************************************************************)
(* BatchPredictor.__map_predictions   (src/modules/utils.py 157-175)       *)
(***************************************************************************)
\* src/modules/utils.py:182  the default label map
DefaultLabelMap == <<"text", "title", "list", "table", "figure">>

\* the label maps a predictor is constructed with in the model
LabelMaps == {DefaultLabelMap, <<"text", "figure">>}

\* boxes (x1, y1, x2, y2) the detector may report: a proper box, an empty
\* one, one with x2 < x1 and one with y2 < y1
Boxes == {<<1, 2, 4, 7>>, <<3, 3, 3, 3>>, <<5, 1, 2, 6>>, <<0, 6, 4, 2>>}

\* detection scores, in percent
Scores == {75, 100}

\* class indices the detector may report for a label map: every index of the
\* map, and one past it (a model with more classes than the map has labels)
ClassIndices(classList) == 0..Len(classList)

\* an Instances value: parallel fields of one length
Instances(boxes, scores, classIdx) ==
    [type |-> "Instances", pred_boxes |-> boxes, scores |-> scores,
     pred_classes |-> classIdx]

\* src/modules/utils.py:78-84
Prediction(x, y, width, height, score, class_name) ==
    [x |-> x, y |-> y, width |-> width, height |-> height, score |-> score,
     class_name |-> class_name]

\* does the list subscription classList[i] succeed (Python: 0-based, negative
\* indices count from the end, anything else is an IndexError)
Subscriptable(classList, i) == -Len(classList) <= i /\ i < Len(classList)

\* variant: the label after the indexed one, wrapping round
SubscriptShifted(classList, i) == classList[((i + 1) % Len(classList)) + 1]

\* src/modules/utils.py:173  self.classes[class_index]
Subscript(classList, i) ==
    IF i >= 0 THEN classList[i + 1] ELSE classList[Len(classList) + i + 1]

\* variant: width and height taken from the wrong corners
MapInstanceCornersMixed(classList, box, score, class_index) ==
    Prediction(box[1], box[2], box[3] - box[2], box[4] - box[1], score,
               Subscript(classList, class_index))

\* src/modules/utils.py:166-173  the loop body
MapInstance(classList, box, score, class_index) ==
    LET x1 == box[1]
        y1 == box[2]
        x2 == box[3]
        y2 == box[4]
        width == x2 - x1
        height == y2 - y1
    IN  Prediction(x1, y1, width, height, score,
                   Subscript(classList, class_index))

Min(a, b) == IF a <= b THEN a ELSE b

\* src/modules/utils.py:158-162  zip(pred_boxes, scores, pred_classes)
Zip3(a, b, c) ==
    [i \in 1..Min(Len(a), Min(Len(b), Len(c))) |-> <<a[i], b[i], c[i]>>]

\* src/modules/utils.py:157-175  does the loop raise (at its first
\* unsubscriptable class index)
MapRaises(classList, inst) ==
    LET z == Zip3(inst.pred_boxes, inst.scores, inst.pred_classes)
    IN  \E i \in 1..Len(z) : ~Subscriptable(classList, z[i][3])

\* src/modules/utils.py:157-175  the list returned when the loop does not raise
MapPredictions(classList, inst) ==
    LET z == Zip3(inst.pred_boxes, inst.scores, inst.pred_classes)
    IN  [i \in 1..Len(z) |-> MapInstance(classList, z[i][1], z[i][2], z[i][3])]

InitMap ==
    /\ mapPc = "call"
    /\ classes \in LabelMaps
    /\ \E n \in 0..MaxInstances :
          \E b \in [1..n -> Boxes], s \in [1..n -> Scores],
             c \in [1..n -> ClassIndices(classes)] :
              instances = Instances(b, s, c)
    /\ predictions = << >>

\* src/modules/utils.py:157-175  one __map_predictions call
MapPredictionsCall ==
    /\ mapPc = "call"
    /\ \/ /\ ~MapRaises(classes, instances)
          /\ predictions' = MapPredictions(classes, instances)
          /\ mapPc' = "return"
       \/ /\ MapRaises(classes, instances)
          /\ mapPc' = "raise"
          /\ UNCHANGED predictions
    /\ UNCHANGED <<classes, instances>>
    /\ UNCHANGED <<mainVars, colVars, callVars>>

NextMap == MapPredictionsCall

InitSpecMap == IdleMain /\ InitMap /\ IdleCollate /\ IdleConfig /\ IdleCall

SpecMap == InitSpecMap /\ [][NextMap]_vars

(***************************************************************************)
(* BatchPredictor.__collate   (src/modules/utils.py 111-132)               *)
(***************************************************************************)
\* an image in CV2 format: height x width x 3 array, channels in BGR order;
\* `content` stands for the pixel data
Image(h, w, content) ==
    [height |-> h, width |-> w, channels |-> <<"B", "G", "R">>,
     content |-> content]

Reverse(s) == [i \in 1..Len(s) |-> s[Len(s) + 1 - i]]

\* int(num / den + 0.5) for num >= 0, den > 0
RoundHalfUp(num, den) == (2 * num + den) \div (2 * den)

\* the (height, width) T.ResizeShortestEdge gives an h x w image: the shorter
\* side scaled to `size`, then both scaled down if the longer one exceeds
\* `max_size`, each rounded to the nearest integer
ResizeOutputShape(h, w, size, max_size) ==
    IF h < w
    THEN IF size * w > max_size * h
         THEN <<RoundHalfUp(max_size * h, w), max_size>>
         ELSE <<size, RoundHalfUp(size * w, h)>>
    ELSE IF size * h > max_size * w
         THEN <<max_size, RoundHalfUp(max_size * w, h)>>
         ELSE <<RoundHalfUp(size * h, w), size>>

\* variant: the two size parameters handed over in the opposite order
AugShapeSwapped(h, w) == ResizeOutputShape(h, w, maxSize, minSize)

\* src/modules/utils.py:111-114  self.aug = T.ResizeShortestEdge(
\*     [MIN_SIZE_TEST, MIN_SIZE_TEST], MAX_SIZE_TEST)
AugShape(h, w) == ResizeOutputShape(h, w, minSize, maxSize)

\* src/modules/utils.py:122-131  the loop body
CollateImage(image) ==
    LET flipped == IF input_format = "RGB"
                   THEN [image EXCEPT !.channels = Reverse(@)]
                   ELSE image
        height == flipped.height
        width == flipped.width
        shape == AugShape(height, width)
        \* astype("float32").transpose(2, 0, 1): channels first
        tensor == [type |-> "Tensor", dtype |-> "float32",
                   shape |-> <<Len(flipped.channels), shape[1], shape[2]>>,
                   channels |-> flipped.channels,
                   content |-> flipped.content]
    IN  [image |-> tensor, height |-> height, width |-> width]

\* src/modules/utils.py:119-132
Collate(b) == [i \in 1..Len(b) |-> CollateImage(b[i])]

\* the images of the model: every positive height and width up to MaxDim
Images == {Image(h, w, 1) : h \in 1..MaxDim, w \in 1..MaxDim}

InitCollate ==
    /\ colPc = "call"
    /\ input_format \in {"RGB", "BGR"}
    /\ minSize \in 1..MaxSize
    /\ maxSize \in 1..MaxSize
    /\ batch \in UNION {[1..n -> Images] : n \in 0..MaxBatchLen}
    /\ data = << >>

\* src/modules/utils.py:119-132  one __collate call
CollateCall ==
    /\ colPc = "call"
    /\ data' = Collate(batch)
    /\ colPc' = "return"
    /\ UNCHANGED <<input_format, minSize, maxSize, batch>>
    /\ UNCHANGED <<mainVars, mapVars, callVars>>

NextCollate == CollateCall

InitSpecCollate == IdleMain /\ IdleMap /\ InitCollate /\ IdleCall

SpecCollate == InitSpecCollate /\ [][NextCollate]_vars

(***************************************************************************)
(* BatchPredictor.__call__   (src/modules/utils.py 134-155)                *)
(***************************************************************************)
\* the detections of the model on an image, a function of its pixel data:
\* content c gives c - 1 instances
Detect(c) ==
    Instances([j \in 1..(c - 1) |-> <<j, c, j + c, c + j + 1>>],
              [j \in 1..(c - 1) |-> 75],
              [j \in 1..(c - 1) |-> (c + j) % Len(DefaultLabelMap)])

\* src/modules/utils.py:154  self.model(batch): one result per input, in order
Model(inputs) ==
    [i \in 1..Len(inputs) |-> [instances |-> Detect(inputs[i].image.content)]]

\* src/modules/utils.py:143-150  the batch the loader hands out after `pos`
\* images: the next batch_size images in order (shuffle=False), fewer at the
\* end (drop_last is not set)
LoaderBatch(pos) ==
    SubSeq(imagery, pos + 1, Min(pos + batch_size, Len(imagery)))

\* variant: only the first result of a batch is passed on
YieldFromFirstOnly(results) == <<results[1]["instances"]>>

\* src/modules/utils.py:155  [result['instances'] for result in results]
YieldFrom(results) == [i \in 1..Len(results) |-> results[i]["instances"]]

InitCall ==
    /\ genState = "suspended"
    /\ imagery \in UNION {[1..n -> {Image(c, c + 1, c) : c \in 1..MaxImages}] :
                             n \in 0..MaxImages}
    /\ batch_size \in 1..MaxBatchSize
    /\ fetched = 0
    /\ pending = << >>
    /\ yielded = << >>

\* the predictor whose __call__ runs: its label map and preprocessing
InitPredictor ==
    /\ mapPc = "idle"
    /\ classes = DefaultLabelMap
    /\ instances = << >>
    /\ predictions = << >>
    /\ input_format \in {"RGB", "BGR"}
    /\ minSize = 2
    /\ maxSize = 3

\* next(): the list of line 155 still has results to yield
YieldPending ==
    /\ genState = "suspended"
    /\ pending # << >>
    /\ yielded' = Append(yielded, Head(pending))
    /\ pending' = Tail(pending)
    /\ UNCHANGED <<genState, imagery, batch_size, fetched>>
    /\ UNCHANGED <<mainVars, mapVars, colVars>>

\* next(): the loader collates the next batch, the model runs on it and the
\* first of its results is yielded
FetchAndYield ==
    /\ genState = "suspended"
    /\ pending = << >>
    /\ fetched < Len(imagery)
    /\ LET b == LoaderBatch(fetched)
           out == YieldFrom(Model(Collate(b)))
       IN  /\ fetched' = fetched + Len(b)
           /\ yielded' = Append(yielded, Head(out))
           /\ pending' = Tail(out)
    /\ UNCHANGED <<genState, imagery, batch_size>>
    /\ UNCHANGED <<mainVars, mapVars, colVars>>

\* next(): the model raises on the next batch; the exception leaves the
\* generator, which is finished from then on
FetchAndRaise ==
    /\ genState = "suspended"
    /\ pending = << >>
    /\ fetched < Len(imagery)
    /\ fetched' = fetched + Len(LoaderBatch(fetched))
    /\ genState' = "raised"
    /\ UNCHANGED <<imagery, batch_size, pending, yielded>>
    /\ UNCHANGED <<mainVars, mapVars, colVars>>

\* next(): the loader is exhausted (StopIteration)
StopIteration ==
    /\ genState = "suspended"
    /\ pending = << >>
    /\ fetched >= Len(imagery)
    /\ genState' = "exhausted"
    /\ UNCHANGED <<imagery, batch_size, fetched, pending, yielded>>
    /\ UNCHANGED <<mainVars, mapVars, colVars>>

NextCall ==
    \/ YieldPending
    \/ FetchAndYield
    \/ FetchAndRaise
    \/ StopIteration

InitSpecCall == IdleMain /\ InitPredictor /\ IdleCollate /\ InitCall

SpecCall == InitSpecCall /\ [][NextCall]_vars

(***************************************************************************)
(* Properties of main().                                                   *)
(***************************************************************************)
\* the positions of `calls` at which stage s was invoked on document k
CallsOf(k, s) == {i \in 1..Len(calls) : calls[i] = <<k, s>>}

\* C1: when no call raises (main() returns), saveLayoutsAsJson and
\* saveLayoutsAsHtml were each invoked exactly once for every entry that
\* os.listdir returned, and the run ends with exactly one JSON and one HTML
\* output per entry: N of each, none missing, none duplicated.
C1_OnePairPerDocument ==
    pc = "done" =>
        /\ \A k \in 1..Len(filenames) :
              /\ Cardinality(CallsOf(k, "saveLayoutsAsJson")) = 1
              /\ Cardinality(CallsOf(k, "saveLayoutsAsHtml")) = 1
        /\ jsonOut = [k \in 1..Len(filenames) |-> DocPath(filenames[k])]
        /\ htmlOut = [k \in 1..Len(filenames) |-> DocPath(filenames[k])]

C1_Witness ==
    /\ pc = "done"
    /\ Len(filenames) >= 2
    /\ Len(jsonOut) = Len(filenames)

\* C2: with an empty input directory and a successful model initialization,
\* main() creates no Document, makes no stage call, writes no output and
\* returns without error (from the loop head the only step is the return).
C2_EmptyDirectory ==
    (predictor # 0 /\ pc # "listdir" /\ dirExists /\ dir = {}) =>
        /\ docs = << >>
        /\ calls = << >>
        /\ jsonOut = << >>
        /\ htmlOut = << >>
        /\ raised = ""
        /\ \/ pc = "done"
           \/ pc = "for" /\ ENABLED ForExit /\ ~ENABLED ForNext

C2_Witness ==
    /\ pc = "done"
    /\ dirExists
    /\ dir = {}
    /\ initCalls = 1
    /\ filenames = << >>

\* the state main() is left in when a call of the loop body raised
C7_AbortedState ==
    raised \in {"Document"} \cup {StageOrder[n] : n \in 1..Len(StageOrder)} =>
        /\ pc = "error"
        \* the raising call is the last one made: no later stage of document k
        /\ raised # "Document" => calls[Len(calls)] = <<idx, raised>>
        /\ Cardinality(CallsOf(idx, raised)) <= 1
        \* nothing of a later document was started
        /\ \A i \in 1..Len(calls) : calls[i][1] <= idx
        /\ Len(docs) <= idx
        \* the documents before k keep the outputs they produced
        /\ \A k \in 1..(idx - 1) :
              /\ Cardinality({i \in 1..Len(jsonOut) :
                                 jsonOut[i] = DocPath(filenames[k])}) = 1
              /\ Cardinality({i \in 1..Len(htmlOut) :
                                 htmlOut[i] = DocPath(filenames[k])}) = 1

\* C7: per-document failures are not isolated: once a call made for the k-th
\* document raises, main() is over with that error; no later stage of
\* document k runs, no stage of a later document is ever started, and the
\* outputs of the documents before k stay as they were.
C7_FailureAbortsBatch ==
    /\ []C7_AbortedState
    /\ [][raised # "" => UNCHANGED mainVars]_vars

C7_Witness ==
    /\ raised = "orderLayouts"
    /\ Len(filenames) = 3
    /\ idx = 2
    /\ Len(jsonOut) = 1
    /\ Len(htmlOut) = 1

\* C8: the stage calls form the strict linear sequence docToImages,
\* extractLayouts, orderLayouts, saveLayoutsAsJson, saveLayoutsAsHtml for
\* document 1, then the same for document 2, and so on: no stage is skipped,
\* repeated or reordered, and a document is created only when every stage of
\* the document before it has been called.
C8_LinearSequentialStages ==
    /\ \A i \in 1..Len(calls) :
          /\ calls[i][1] = ((i - 1) \div 5) + 1
          /\ calls[i][2] = <<"docToImages", "extractLayouts", "orderLayouts",
                             "saveLayoutsAsJson", "saveLayoutsAsHtml">>
                               [((i - 1) % 5) + 1]
    /\ Len(calls) <= 5 * Len(docs)
    /\ Len(docs) > 0 => Len(calls) >= 5 * (Len(docs) - 1)
    /\ \A k \in 1..Len(docs) : docs[k].path = DocPath(filenames[k])

C8_Witness ==
    /\ Len(calls) = 10
    /\ Len(docs) = 2
    /\ pc = "for"

\* the model objects main() holds, as far as a state shows them
C9_ModelState ==
    /\ initCalls <= 1
    /\ docs # << >> => initCalls = 1 /\ predictor # 0 /\ metadata # 0
    /\ \A k \in 1..Len(docs) :
          docs[k].predictor = predictor /\ docs[k].metadata = metadata
    /\ raised = "initializeModel" =>
          docs = << >> /\ calls = << >> /\ pc = "error" /\ predictor = 0

\* C9: the model is initialized exactly once per run and before any Document
\* is created; every Document receives the same predictor and metadata
\* objects, which main() never rebinds after the initialization; and when
\* the initialization fails no document is processed.
C9_ModelInitializedOnce ==
    /\ []C9_ModelState
    /\ [][pc # "initializeModel" =>
             /\ initCalls' = initCalls
             /\ predictor' = predictor
             /\ metadata' = metadata]_vars

C9_Witness ==
    /\ Len(docs) >= 2
    /\ initCalls = 1
    /\ docs[1].predictor = docs[2].predictor

(***************************************************************************)
(* Properties of BatchPredictor.__map_predictions.                         *)
(***************************************************************************)
\* C4: the mapping returns exactly one Prediction per instance, in instance
\* order; for an instance with corners (x1, y1, x2, y2) the Prediction has
\* x = x1, y = y1, width = x2 - x1 and height = y2 - y1, and for a valid
\* detection (x2 >= x1 and y2 >= y1) width and height are not negative.
C4_BoxToWidthHeight ==
    mapPc = "return" =>
        /\ Len(predictions) = Len(instances.pred_boxes)
        /\ \A i \in 1..Len(predictions) :
              LET box == instances.pred_boxes[i]
                  p == predictions[i]
              IN  /\ p.x = box[1]
                  /\ p.y = box[2]
                  /\ p.width = box[3] - box[1]
                  /\ p.height = box[4] - box[2]
                  /\ p.score = instances.scores[i]
                  /\ (box[3] >= box[1] /\ box[4] >= box[2]) =>
                        (p.width >= 0 /\ p.height >= 0)

C4_Witness ==
    /\ mapPc = "return"
    /\ Len(predictions) = 2
    /\ instances.pred_boxes = <<<<1, 2, 4, 7>>, <<3, 3, 3, 3>>>>
    /\ predictions[1].width = 3
    /\ predictions[1].height = 5
    /\ predictions[2].width = 0

\* C5: every class index i with 0 <= i < len(label map) resolves to the i-th
\* entry of the configured label map, so to a member of the label set (with
\* the default map: text, title, list, table or figure); when every index is
\* in range the mapping does not raise.
C5_ClassNameFromLabelMap ==
    /\ mapPc = "return" =>
          \A i \in 1..Len(predictions) :
              LET c == instances.pred_classes[i]
              IN  (0 <= c /\ c < Len(classes)) =>
                    /\ predictions[i].class_name = classes[c + 1]
                    /\ \E j \in 1..Len(classes) :
                          predictions[i].class_name = classes[j]
                    /\ classes = DefaultLabelMap =>
                          predictions[i].class_name \in
                              {"text", "title", "list", "table", "figure"}
    /\ mapPc = "raise" =>
          \E i \in 1..Len(instances.pred_classes) :
              ~(0 <= instances.pred_classes[i]
                /\ instances.pred_classes[i] < Len(classes))

C5_Witness ==
    /\ mapPc = "return"
    /\ classes = DefaultLabelMap
    /\ instances.pred_classes = <<4, 0>>
    /\ predictions[1].class_name = "figure"
    /\ predictions[2].class_name = "text"

PyList(items) == [type |-> "list", items |-> items]

\* C3: every element a BatchPredictor call yields is the list of Prediction
\* tuples that the prediction mapping gives for that image's detected
\* instances, not the raw model output.
C3_YieldsMappedPredictions ==
    \A i \in 1..Len(yielded) :
        yielded[i] =
            PyList(MapPredictions(classes, Detect(imagery[i].content)))

\* what a state of the generator shows of its output
C10_YieldedState ==
    \* the i-th value yielded is the result for the i-th image
    /\ Len(yielded) <= Len(imagery)
    /\ \A i \in 1..Len(yielded) : yielded[i] = Detect(imagery[i].content)
    \* fully consumed: exactly one result per image
    /\ genState = "exhausted" => Len(yielded) = Len(imagery)
    \* the model raised on a batch: exactly the results of the batches before
    \* it were yielded
    /\ genState = "raised" =>
          /\ pending = << >>
          /\ Len(yielded) % batch_size = 0
          /\ Len(yielded) < fetched
          /\ fetched <= Len(yielded) + batch_size

\* C10: for N images and a batch size B >= 1 (N = 0 and N not divisible by B
\* included) a fully consumed call yields exactly N results, the i-th for the
\* i-th image: nothing is dropped, duplicated or reordered and the final
\* partial batch is processed. When the model raises on a batch, the results
\* of the earlier batches have been yielded and nothing is yielded afterwards.
C10_OneResultPerImageInOrder ==
    /\ []C10_YieldedState
    /\ [][(genState \in {"raised", "exhausted"}) => (callVars' = callVars)]_vars

C10_Witness ==
    /\ genState = "exhausted"
    /\ Len(imagery) = 3
    /\ batch_size = 2
    /\ fetched = 3
    /\ Len(yielded) = 3
    /\ imagery[1] # imagery[2]
    /\ imagery[2] # imagery[3]

====
